---- MODULE Spec2Model ----
(***************************************************************************)
(* The NEXUS probe (scripts/nexus/probe_nexus.py): main, run_probe and the *)
(* helpers they call, as a state machine.  One sequential flow of control  *)
(* (pc) runs against an environment: the supervised QEMU process writing   *)
(* to its output pipe and exiting, the wall clock, the SIGINT handler, and *)
(* the garbage collector closing file objects nobody references.           *)
(*                                                                         *)
(* Text is abstracted to tokens.  A line is a sequence of tokens; the      *)
(* token "NL" is the line feed.  Each keyword token stands for one         *)
(* alternative of the regular expressions of SIGNAL_PATTERNS and           *)
(* DEATH_SIGNATURES: "NX" is "[NEXUS]", "ADJ" is "adjust", "TF" is         *)
(* "triple fault", and so on; "SP" is trailing white space.                *)
(***************************************************************************)
EXTENDS Integers, Sequences, FiniteSets, TLC

VARIABLES
    state,        \* the ProbeState object
    pc,           \* position of the flow of control in main / run_probe
    args,         \* parsed command line (the part run_probe depends on)
    proc,         \* run_probe's local proc: the Popen handle and its process
    pipe,         \* bytes written by the process and not yet read
    monitor,      \* run_probe's local monitor: the MonitorSocket fields
    loc,          \* run_probe's other locals of the Active loop
    clock,        \* time.monotonic(), in ticks
    open_handles, \* cycle numbers whose log file object is open
    others,       \* processes of earlier cycles that are still running
    hist          \* history of the run, for stating properties

vars == <<state, pc, args, proc, pipe, monitor, loc, clock, open_handles, others, hist>>

---------------------------------------------------------------------------
\* Bounds of the model.
MaxCycles == 2
MaxEvents == 3
CycleTimeout == 3
PokeInterval == 1
RingFree == 2
RingExtra == 3
MaxTokens == 2
MaxRetries == 4
MaxExitCode == 15
MaxOps == 4

\* Program constants.
PokeBurst == 2
NoPokeInterval == 999999
NoPokeBurst == 0
MAX_RECENT == 50
TermGrace == 3
KillGrace == 2

NL == "NL"
SP == "SP"
\* What one write of the modelled process adds to its output: the start of
\* a line, or the end of one (a whole line when none was started).
Writes == { <<"NX">>, <<"ADJ", NL>>, <<"TF", NL>> }

---------------------------------------------------------------------------
\* Regular expressions over tokens.  A pattern is [pre, kw]: it matches a
\* line holding a token of kw, after a token of pre when pre is not empty
\* (the shape \[NEXUS\].*(?:a|b|c)).

Search(pat, line) ==
    IF pat.pre = {}
    THEN \E j \in 1..Len(line) : line[j] \in pat.kw
    ELSE \E i, j \in 1..Len(line) : i < j /\ line[i] \in pat.pre /\ line[j] \in pat.kw

SIGNAL_PATTERNS ==
    << [tag |-> "ADAPT", is_decision |-> TRUE,  pre |-> {"NX"}, kw |-> {"ADJ"}],
       [tag |-> "HEAL",  is_decision |-> TRUE,  pre |-> {"NX"}, kw |-> {"HEAL"}],
       [tag |-> "META",  is_decision |-> TRUE,  pre |-> {"NX"}, kw |-> {"DRIFT"}],
       [tag |-> "NEXUS", is_decision |-> FALSE, pre |-> {},     kw |-> {"NX"}],
       [tag |-> "nexus", is_decision |-> FALSE, pre |-> {},     kw |-> {"NXL"}],
       [tag |-> "CORE",  is_decision |-> FALSE, pre |-> {},     kw |-> {"CORE"}],
       [tag |-> "BOOT",  is_decision |-> FALSE, pre |-> {},     kw |-> {"BOOT"}],
       [tag |-> "SCHED", is_decision |-> FALSE, pre |-> {},     kw |-> {"SCHED"}],
       [tag |-> "DEMO",  is_decision |-> FALSE, pre |-> {},     kw |-> {"DEMO"}],
       [tag |-> "PANIC", is_decision |-> FALSE, pre |-> {},     kw |-> {"PANIC", "TF"}],
       [tag |-> "CRASH", is_decision |-> FALSE, pre |-> {},     kw |-> {"SD", "KVM", "HALT"}],
       [tag |-> "MEM",   is_decision |-> FALSE, pre |-> {},     kw |-> {"HEAP"}] >>

DEATH_SIGNATURES ==
    << [pre |-> {}, kw |-> {"TF"}],
       [pre |-> {}, kw |-> {"SD"}],
       [pre |-> {}, kw |-> {"KVM"}],
       [pre |-> {}, kw |-> {"HALT"}] >>

\* An is_death that a [NEXUS] tag on the line suppresses.
is_death_unless_nexus(line) ==
    /\ \E k \in 1..Len(DEATH_SIGNATURES) : Search(DEATH_SIGNATURES[k], line)
    /\ ~Search(SIGNAL_PATTERNS[4], line)

is_death(line) ==
    \E k \in 1..Len(DEATH_SIGNATURES) : Search(DEATH_SIGNATURES[k], line)

\* str.rstrip(): drop trailing white space.
RECURSIVE rstrip(_)
rstrip(line) ==
    IF line # <<>> /\ line[Len(line)] = SP
    THEN rstrip(SubSeq(line, 1, Len(line) - 1))
    ELSE line

\* Index of the last rule matching the line, 0 when none does.
LastMatch(stripped) ==
    LET hits == {k \in 1..Len(SIGNAL_PATTERNS) : Search(SIGNAL_PATTERNS[k], stripped)}
    IN  IF hits = {} THEN 0 ELSE CHOOSE k \in hits : \A m \in hits : k >= m

\* Index of the first rule matching the line, 0 when none does.
FirstMatch(stripped) ==
    LET hits == {k \in 1..Len(SIGNAL_PATTERNS) : Search(SIGNAL_PATTERNS[k], stripped)}
    IN  IF hits = {} THEN 0 ELSE CHOOSE k \in hits : \A m \in hits : k <= m

\* An add_signal that enters the line twice.
add_signal_twice(st, tag, line) ==
    LET appended == st.recent_signals \o << <<tag, rstrip(line)>>, <<tag, rstrip(line)>> >>
    IN  [st EXCEPT !.recent_signals =
            IF Len(appended) > MAX_RECENT THEN Tail(appended) ELSE appended]

\* An add_signal that, when the buffer is full, drops the new entry.
add_signal_newest_dropped(st, tag, line) ==
    LET appended == Append(st.recent_signals, <<tag, rstrip(line)>>)
    IN  [st EXCEPT !.recent_signals =
            IF Len(appended) > MAX_RECENT THEN st.recent_signals ELSE appended]

add_signal(st, tag, line) ==
    LET appended == Append(st.recent_signals, <<tag, rstrip(line)>>)
    IN  [st EXCEPT !.recent_signals =
            IF Len(appended) > MAX_RECENT THEN Tail(appended) ELSE appended]

\* A classify_line that counts the line for the cycle only.
CountLine_cycle_only(st, line) ==
    LET counted == [st EXCEPT !.cycle_lines = @ + 1]
    IN  IF st.cycle_log_fd = "open"
        THEN [counted EXCEPT !.log = Append(@, <<"line", rstrip(line)>>)]
        ELSE counted

\* classify_line up to and including the write to the cycle log.
CountLine(st, line) ==
    LET counted == [st EXCEPT !.lines_total = @ + 1, !.cycle_lines = @ + 1]
    IN  IF st.cycle_log_fd = "open"
        THEN [counted EXCEPT !.log = Append(@, <<"line", rstrip(line)>>)]
        ELSE counted

\* A pattern loop that counts the lines tagged CORE and DEMO as boot signals.
TagLine_core_as_boot(st, line) ==
    LET stripped == rstrip(line)
        k == FirstMatch(stripped)
        rule == SIGNAL_PATTERNS[k]
        tag == rule.tag
        s1 == IF rule.is_decision
              THEN [st EXCEPT !.decisions_detected = @ + 1,
                              !.cycle_decisions = @ + 1,
                              !.last_thought = stripped]
              ELSE st
        s2 == IF tag \in {"NEXUS", "nexus"} THEN [s1 EXCEPT !.nexus_signals = @ + 1]
              ELSE IF tag \in {"BOOT", "CORE", "DEMO"} THEN [s1 EXCEPT !.boot_signals = @ + 1]
              ELSE IF tag \in {"PANIC", "CRASH"} THEN [s1 EXCEPT !.panic_signals = @ + 1]
              ELSE IF tag = "MEM" THEN [s1 EXCEPT !.mem_signals = @ + 1]
              ELSE IF tag = "SCHED" THEN [s1 EXCEPT !.sched_signals = @ + 1]
              ELSE s1
    IN  IF k = 0 THEN st ELSE add_signal(s2, tag, stripped)

\* A pattern loop that records every line, matched or not, in the buffer.
TagLine_recording_all(st, line) == add_signal(st, "NONE", rstrip(line))

\* A pattern loop whose decision rules count as NEXUS signals too, and
\* leave the last decision text.
TagLine_decision_as_signal(st, line) ==
    LET stripped == rstrip(line)
        k == FirstMatch(stripped)
        rule == SIGNAL_PATTERNS[k]
        tag == rule.tag
        s1 == IF rule.is_decision
              THEN [st EXCEPT !.decisions_detected = @ + 1,
                              !.cycle_decisions = @ + 1,
                              !.nexus_signals = @ + 1]
              ELSE st
        s2 == IF tag \in {"NEXUS", "nexus"} THEN [s1 EXCEPT !.nexus_signals = @ + 1]
              ELSE IF tag = "BOOT" THEN [s1 EXCEPT !.boot_signals = @ + 1]
              ELSE IF tag \in {"PANIC", "CRASH"} THEN [s1 EXCEPT !.panic_signals = @ + 1]
              ELSE IF tag = "MEM" THEN [s1 EXCEPT !.mem_signals = @ + 1]
              ELSE IF tag = "SCHED" THEN [s1 EXCEPT !.sched_signals = @ + 1]
              ELSE s1
    IN  IF k = 0 THEN st ELSE add_signal(s2, tag, stripped)

\* classify_line from the pattern loop on.
TagLine(st, line) ==
    LET stripped == rstrip(line)
        k == FirstMatch(stripped)
        rule == SIGNAL_PATTERNS[k]
        tag == rule.tag
        s1 == IF rule.is_decision
              THEN [st EXCEPT !.decisions_detected = @ + 1,
                              !.cycle_decisions = @ + 1,
                              !.last_thought = stripped]
              ELSE st
        s2 == IF tag \in {"NEXUS", "nexus"} THEN [s1 EXCEPT !.nexus_signals = @ + 1]
              ELSE IF tag = "BOOT" THEN [s1 EXCEPT !.boot_signals = @ + 1]
              ELSE IF tag \in {"PANIC", "CRASH"} THEN [s1 EXCEPT !.panic_signals = @ + 1]
              ELSE IF tag = "MEM" THEN [s1 EXCEPT !.mem_signals = @ + 1]
              ELSE IF tag = "SCHED" THEN [s1 EXCEPT !.sched_signals = @ + 1]
              ELSE s1
    IN  IF k = 0 THEN st ELSE add_signal(s2, tag, stripped)

classify_line(line, st) == TagLine(CountLine(st, line), line)

\* classify_line when the flush of the cycle log raises OSError: the line
\* is counted, the exception leaves before the pattern loop.
classify_line_raises(line, st) ==
    [st EXCEPT !.lines_total = @ + 1, !.cycle_lines = @ + 1]

---------------------------------------------------------------------------
\* Splitting text into lines.

\* remaining_buf.split("\n", 1), repeated while "\n" is in the buffer:
\* the complete lines, and what follows the last line feed.
RECURSIVE SplitBuf(_)
SplitBuf(buf) ==
    LET idx == {i \in 1..Len(buf) : buf[i] = NL}
    IN  IF idx = {}
        THEN [lines |-> <<>>, rest |-> buf]
        ELSE LET i == CHOOSE x \in idx : \A y \in idx : x <= y
                 r == SplitBuf(SubSeq(buf, i + 1, Len(buf)))
             IN  [lines |-> <<SubSeq(buf, 1, i - 1)>> \o r.lines, rest |-> r.rest]

\* str.splitlines(): the lines, a last one without line feed included.
splitlines(text) ==
    LET s == SplitBuf(text)
    IN  IF s.rest = <<>> THEN s.lines ELSE Append(s.lines, s.rest)

\* The loop "classify_line(ln, state); if is_death(ln): death_detected = True"
\* over lines from index i on.  k is the line whose log flush raises (0: none):
\* the loop stops there with the exception.  handed are the lines passed to
\* classify_line, checked those passed to is_death.
RECURSIVE Feed(_, _, _, _, _)
Feed(st, death, lines, i, k) ==
    IF i > Len(lines)
    THEN [st |-> st, death |-> death, raised |-> FALSE,
          handed |-> lines, checked |-> lines]
    ELSE IF i = k
    THEN [st |-> classify_line_raises(lines[i], st), death |-> death, raised |-> TRUE,
          handed |-> SubSeq(lines, 1, i), checked |-> SubSeq(lines, 1, i - 1)]
    ELSE Feed(classify_line(lines[i], st), death \/ is_death(lines[i]), lines, i + 1, k)

\* The lines whose flush can raise: any, when a cycle log is open.
Raisable(st, lines) == IF st.cycle_log_fd = "open" THEN 0..Len(lines) ELSE {0}

---------------------------------------------------------------------------
\* QEMU process management.

NoProc == [st |-> "none", code |-> 0, signalled |-> "none"]

\* launch_qemu: Popen returns a running process, raises FileNotFoundError
\* (None is returned) or raises another OSError, which launch_qemu lets through.
launch_qemu ==
    { [result |-> "ok",     proc |-> [st |-> "running", code |-> 0, signalled |-> "none"]],
      [result |-> "none",   proc |-> NoProc],
      [result |-> "raises", proc |-> NoProc] }

\* How a running process takes the signals of kill_qemu: it ends on SIGTERM
\* within the first wait, on SIGKILL within the second, or outlives both;
\* or killpg raises PermissionError each time and no signal reaches it.
Obeys == {"term", "kill", "never", "denied"}

\* A kill_qemu that signals and waits out the first wait whatever the
\* handle.
kill_qemu_run_always_waits(p, obeys) ==
    IF p.st = "none"
    THEN [proc |-> p, tried |-> <<>>, sent |-> <<>>, waited |-> 0, returned |-> TRUE]
    ELSE IF p.st = "exited" \/ obeys = "term"
    THEN [proc |-> [st |-> "exited", code |-> -15, signalled |-> "TERM"],
          tried |-> <<"TERM">>, sent |-> <<"TERM">>, waited |-> TermGrace,
          returned |-> TRUE]
    ELSE IF obeys = "kill"
    THEN [proc |-> [st |-> "exited", code |-> -9, signalled |-> "KILL"],
          tried |-> <<"TERM", "KILL">>, sent |-> <<"TERM", "KILL">>,
          waited |-> TermGrace, returned |-> TRUE]
    ELSE [proc |-> [st |-> "running", code |-> p.code, signalled |-> "KILL"],
          tried |-> <<"TERM", "KILL">>,
          sent |-> IF obeys = "denied" THEN <<>> ELSE <<"TERM", "KILL">>,
          waited |-> TermGrace + KillGrace, returned |-> TRUE]

\* A kill_qemu that starts with SIGKILL and lets an error of killpg through.
kill_qemu_run_kill_first(p, obeys) ==
    IF p.st = "none" \/ p.st = "exited"
    THEN [proc |-> p, tried |-> <<>>, sent |-> <<>>, waited |-> 0, returned |-> TRUE]
    ELSE IF obeys = "denied"
    THEN [proc |-> [st |-> "running", code |-> p.code, signalled |-> "KILL"],
          tried |-> <<"KILL">>, sent |-> <<>>, waited |-> 0, returned |-> FALSE]
    ELSE IF obeys = "never"
    THEN [proc |-> [st |-> "running", code |-> p.code, signalled |-> "KILL"],
          tried |-> <<"KILL">>, sent |-> <<"KILL">>, waited |-> TermGrace,
          returned |-> TRUE]
    ELSE [proc |-> [st |-> "exited", code |-> -9, signalled |-> "KILL"],
          tried |-> <<"KILL">>, sent |-> <<"KILL">>, waited |-> 0, returned |-> TRUE]

\* One run of kill_qemu on the handle p: the handle's process afterwards,
\* the signals tried on its group in order, those delivered, the time spent
\* in timed-out waits, and whether the call returned.  None returns at once.
\* For a process that has exited, getpgid raises ProcessLookupError, which
\* is passed over, and wait returns at once.  Otherwise SIGTERM and a wait
\* of TermGrace; on its timeout SIGKILL and a wait of KillGrace, whose
\* timeout is passed over.  An error of getpgid or killpg is passed over
\* both times, so every path reaches the return.
kill_qemu_run(p, obeys) ==
    IF p.st = "none" \/ p.st = "exited"
    THEN [proc |-> p, tried |-> <<>>, sent |-> <<>>, waited |-> 0, returned |-> TRUE]
    ELSE IF obeys = "term"
    THEN [proc |-> [st |-> "exited", code |-> -15, signalled |-> "TERM"],
          tried |-> <<"TERM">>, sent |-> <<"TERM">>, waited |-> 0, returned |-> TRUE]
    ELSE IF obeys = "kill"
    THEN [proc |-> [st |-> "exited", code |-> -9, signalled |-> "KILL"],
          tried |-> <<"TERM", "KILL">>, sent |-> <<"TERM", "KILL">>,
          waited |-> TermGrace, returned |-> TRUE]
    ELSE [proc |-> [st |-> "running", code |-> p.code, signalled |-> "KILL"],
          tried |-> <<"TERM", "KILL">>,
          sent |-> IF obeys = "denied" THEN <<>> ELSE <<"TERM", "KILL">>,
          waited |-> TermGrace + KillGrace, returned |-> TRUE]

\* kill_qemu: what the handle's process can be afterwards.
kill_qemu(p) == { kill_qemu_run(p, obeys).proc : obeys \in Obeys }

---------------------------------------------------------------------------
\* MonitorSocket.

NoMonitor == [sock |-> FALSE, connected |-> FALSE]

\* connect(): connected on some attempt, or False after the retries.
monitor_connect(m) == { [sock |-> TRUE, connected |-> TRUE], m }

\* What one attempt of connect() can meet at the socket path: nothing
\* listening, a listener that greets, a listener whose greeting does not
\* come within the timeout, a listener that resets while greeting.
Endpoint == {"refused", "greets", "silent", "resets"}

\* connect(retries), attempt by attempt, against the endpoint behaviour reach
\* (one element per attempt): socket, connect and recv of the greeting; a
\* socket.timeout of the recv is passed over; any OSError ends the attempt
\* and is followed by the delay.  After the last attempt, False.
RECURSIVE connect_attempt(_, _, _, _, _)
connect_attempt(m, reach, retries, attempt, sleeps) ==
    IF attempt > retries
    THEN [m |-> m, returned |-> FALSE, attempts |-> attempt - 1, sleeps |-> sleeps]
    ELSE IF reach[attempt] \in {"greets", "silent"}
    THEN [m |-> [sock |-> TRUE, connected |-> TRUE], returned |-> TRUE,
          attempts |-> attempt, sleeps |-> sleeps]
    ELSE connect_attempt(m, reach, retries, attempt + 1, sleeps + 1)

\* A connect that goes round once more than retries.
connect_once_more(m, reach, retries) ==
    LET r == connect_attempt(m, reach, retries, 1, 0)
    IN  IF r.returned THEN r ELSE [r EXCEPT !.attempts = @ + 1, !.sleeps = @ + 1]

connect(m, reach, retries) == connect_attempt(m, reach, retries, 1, 0)

\* What one send() can meet at the socket: a response, no response within
\* the timeout, an error of sendall, an error of recv.
Net == {"responds", "timeout", "send_error", "recv_error"}

\* A send that takes a missing response for a transport error.
send_timeout_marks_dead(m, net) ==
    IF ~m.connected \/ ~m.sock
    THEN [m |-> m, response |-> "none", touched |-> FALSE, raised |-> FALSE]
    ELSE IF net = "responds"
    THEN [m |-> m, response |-> "text", touched |-> TRUE, raised |-> FALSE]
    ELSE [m |-> [m EXCEPT !.connected = FALSE], response |-> "none",
          touched |-> TRUE, raised |-> FALSE]

\* send(command) against the socket behaviour net: the object afterwards,
\* what is returned ("none" is None, "text" the decoded response), whether
\* the socket was used, whether an exception left the call.  Not connected
\* or no socket: None at once.  socket.timeout of recv: "(timeout)".
\* BrokenPipeError, ConnectionResetError or another OSError of sendall or
\* recv: _connected is cleared (the socket object is kept) and None returned.
send(m, net) ==
    IF ~m.connected \/ ~m.sock
    THEN [m |-> m, response |-> "none", touched |-> FALSE, raised |-> FALSE]
    ELSE IF net = "responds"
    THEN [m |-> m, response |-> "text", touched |-> TRUE, raised |-> FALSE]
    ELSE IF net = "timeout"
    THEN [m |-> m, response |-> "(timeout)", touched |-> TRUE, raised |-> FALSE]
    ELSE [m |-> [m EXCEPT !.connected = FALSE], response |-> "none",
          touched |-> TRUE, raised |-> FALSE]

\* send(): what the object can be afterwards.
monitor_send(m) == { send(m, net).m : net \in Net }

\* A close that drops the socket and leaves the connected flag.
monitor_close_keeping_flag(m) ==
    IF m.sock THEN [sock |-> FALSE, connected |-> m.connected] ELSE m

monitor_close(m) == IF m.sock THEN [sock |-> FALSE, connected |-> FALSE] ELSE m

\* The loop "for _ in range(poke_burst)" from the i-th send on: each round
\* calls send and adds 1 to stimuli_sent.  attempts are the calls of send,
\* dead_calls those made on an object that was not alive, counted what the
\* loop adds to stimuli_sent.
RECURSIVE burst_from(_, _, _)
burst_from(b, nets, i) ==
    IF i > Len(nets) THEN b
    ELSE burst_from([m |-> send(b.m, nets[i]).m,
                     attempts |-> b.attempts + 1,
                     dead_calls |-> b.dead_calls + IF b.m.connected THEN 0 ELSE 1,
                     counted |-> b.counted + 1], nets, i + 1)

\* A burst that ends at the first send that leaves the monitor dead.
RECURSIVE burst_until_dead(_, _, _)
burst_until_dead(b, nets, i) ==
    IF i > Len(nets) \/ ~b.m.connected THEN b
    ELSE burst_until_dead([m |-> send(b.m, nets[i]).m,
                           attempts |-> b.attempts + 1,
                           dead_calls |-> b.dead_calls,
                           counted |-> b.counted + 1], nets, i + 1)

stimulus_burst_cut_short(m, nets) ==
    burst_until_dead([m |-> m, attempts |-> 0, dead_calls |-> 0, counted |-> 0], nets, 1)

\* The burst of one stimulus injection, nets[i] being what the i-th send
\* meets.
stimulus_burst(m, nets) ==
    burst_from([m |-> m, attempts |-> 0, dead_calls |-> 0, counted |-> 0], nets, 1)

\* A burst of n sends, one after the other: what the monitor can be
\* afterwards.
Burst(m, n) == { stimulus_burst(m, nets).m : nets \in [1..n -> Net] }

---------------------------------------------------------------------------
\* The state after construction: main before parse_args returns.

ProbeState ==
    [cycles_total |-> 0, crashes_total |-> 0, lines_total |-> 0, stimuli_sent |-> 0,
     decisions_detected |-> 0, nexus_signals |-> 0, boot_signals |-> 0,
     panic_signals |-> 0, mem_signals |-> 0, sched_signals |-> 0,
     current_cycle |-> 0, cycle_start |-> 0, cycle_lines |-> 0, cycle_decisions |-> 0,
     last_thought |-> <<"(none yet)">>, recent_signals |-> <<>>,
     cycle_log_fd |-> "none", log |-> <<>>,
     shutdown_requested |-> FALSE]

NoLocals ==
    [deadline |-> 0, last_poke |-> 0, death_detected |-> FALSE, remaining_buf |-> <<>>]

NoCycle == [cycle |-> 0, counted |-> 0, death_detected |-> FALSE]

NoKill ==
    [calls |-> 0, before |-> NoProc, obeys |-> "none", tried |-> <<>>, sent |-> <<>>,
     waited |-> 0, returned |-> FALSE]

NoOp ==
    [n |-> 0, name |-> "none", prev |-> "none", before |-> NoMonitor,
     net |-> "none", response |-> "none", touched |-> FALSE, raised |-> FALSE,
     last_poke |-> 0, sent_before |-> 0, attempts |-> 0, dead_calls |-> 0]

NoCall == [retries |-> 0, reach |-> <<>>, returned |-> FALSE, attempts |-> 0, sleeps |-> 0]

History ==
    [reports |-> 0,            \* calls of print_final_report
     entered |-> FALSE,        \* run_probe was called
     fault |-> "none",         \* where an exception left run_probe
     sum_lines |-> 0,          \* cycle_lines of the earlier cycles, summed
     sum_decisions |-> 0,      \* cycle_decisions of the earlier cycles, summed
     emitted |-> 0,            \* writes made by all processes
     launches |-> 0,           \* processes launched
     produced |-> <<>>,        \* what this cycle's process has written
     classified |-> <<>>,      \* the lines handed to classify_line this cycle
     checked |-> <<>>,         \* the lines handed to is_death this cycle
     crashes_before |-> 0,     \* crashes_total when this cycle started
     stimuli_before |-> 0,     \* stimuli_sent when this cycle started
     launch |-> "none",        \* how this cycle's launch_qemu ended
     end |-> "none",           \* why this cycle's Active loop ended
     end_produced |-> <<>>,    \* produced, when the Active loop ended
     end_proc |-> NoProc,      \* the process, when the Active loop ended
     exit_seen |-> FALSE,      \* the exit check saw the process exited
     sigint_cycle |-> 0,       \* the cycle whose Active loop SIGINT interrupted
     sigint_launches |-> -1,   \* launches, when the shutdown flag was set
     closed |-> NoCycle,       \* the last cycle whose cleanup completed
     call |-> NoCall,          \* a call of connect(): its inputs and what it did
     kill |-> NoKill,          \* the calls of kill_qemu on one handle
     op |-> NoOp]              \* the last operation on one MonitorSocket

\* parse_args: without --no-poke; the other options at their modelled values.
parse_args == {[no_poke |-> FALSE, cycle_timeout |-> CycleTimeout]}

\* The arguments main passes to run_probe.
cycle_timeout == args.cycle_timeout
poke_interval == IF args.no_poke THEN NoPokeInterval ELSE PokeInterval

\* A burst size that --no-poke does not change.
poke_burst_unconditional == PokeBurst

poke_burst == IF args.no_poke THEN NoPokeBurst ELSE PokeBurst

Init ==
    /\ state = ProbeState
    /\ pc = "main"
    /\ args \in parse_args
    /\ proc = NoProc
    /\ pipe = <<>>
    /\ monitor = NoMonitor
    /\ loc = NoLocals
    /\ clock = 0
    /\ open_handles = {}
    /\ others = <<>>
    /\ hist = History

---------------------------------------------------------------------------
\* main.

\* A verdict that takes any tagged line for a signal.
print_final_report_any_tag(st) ==
    IF st.decisions_detected > 0 THEN "contact"
    ELSE IF st.recent_signals # <<>> THEN "signal"
    ELSE "silence"

\* print_final_report: the verdict it prints, CONTACT ESTABLISHED, SIGNAL
\* DETECTED or SILENCE.
print_final_report(st) ==
    IF st.decisions_detected > 0 THEN "contact"
    ELSE IF st.nexus_signals > 0 THEN "signal"
    ELSE "silence"

\* A main whose except branch returns without the report.
main_after_unreported(h, raised) ==
    IF raised THEN h ELSE [h EXCEPT !.reports = @ + 1]

\* main from the end of run_probe on: an Exception that left run_probe is
\* caught and logged; print_final_report is called; return 0.
main_after(h, raised) == [h EXCEPT !.reports = @ + 1]

\* main up to the call of run_probe: the build fails or the kernel binary
\* is missing (return 1), or run_probe is entered.
MainStart ==
    /\ pc = "main"
    /\ \E built \in BOOLEAN :
          IF built
          THEN /\ pc' = "loop_head"
               /\ hist' = [hist EXCEPT !.entered = TRUE]
          ELSE /\ pc' = "exit"
               /\ hist' = hist
    /\ UNCHANGED <<state, args, proc, pipe, monitor, loc, clock, open_handles, others>>

---------------------------------------------------------------------------
\* run_probe: the head of the outer loop and the start of a cycle.

\* A cycle start that leaves cycle_lines and cycle_decisions as they were.
new_cycle_keeping(st, now) ==
    [st EXCEPT !.cycles_total = @ + 1,
               !.current_cycle = st.cycles_total + 1,
               !.cycle_start = now]

\* A cycle start that also zeroes the lifetime line counter.
new_cycle_resetting(st, now) ==
    [st EXCEPT !.cycles_total = @ + 1,
               !.current_cycle = st.cycles_total + 1,
               !.cycle_start = now,
               !.lines_total = 0,
               !.cycle_lines = 0,
               !.cycle_decisions = 0]

new_cycle(st, now) ==
    [st EXCEPT !.cycles_total = @ + 1,
               !.current_cycle = st.cycles_total + 1,
               !.cycle_start = now,
               !.cycle_lines = 0,
               !.cycle_decisions = 0]

\* open(log_path, "w") and the header.  The log directory exists (main made
\* it) and the open is taken to succeed.
open_log(st) ==
    [st EXCEPT !.cycle_log_fd = "open", !.log = << <<"header", st.cycles_total>> >>]

\* The loop is left when the shutdown flag is set, and main goes on.
LoopExit ==
    /\ pc = "loop_head"
    /\ state.shutdown_requested
    /\ pc' = "exit"
    /\ hist' = main_after(hist, FALSE)
    /\ UNCHANGED <<state, args, proc, pipe, monitor, loc, clock, open_handles, others>>

\* A loop head that does not look at the shutdown flag.
LoopHeadIgnoringShutdown ==
    /\ pc = "loop_head"
    /\ state.cycles_total < MaxCycles
    /\ state' = open_log(new_cycle(state, clock))
    /\ open_handles' = open_handles \cup {state.cycles_total + 1}
    /\ pc' = "launch"
    /\ hist' = [hist EXCEPT !.sum_lines = @ + state.cycle_lines,
                            !.sum_decisions = @ + state.cycle_decisions,
                            !.produced = <<>>, !.classified = <<>>, !.checked = <<>>,
                            !.crashes_before = state.crashes_total,
                            !.stimuli_before = state.stimuli_sent,
                            !.launch = "none",
                            !.end = "none", !.end_produced = <<>>,
                            !.end_proc = NoProc, !.exit_seen = FALSE]
    /\ UNCHANGED <<args, proc, pipe, monitor, loc, clock, others>>

\* A cycle starts: its counters, its log.
LoopHead ==
    /\ pc = "loop_head"
    /\ ~state.shutdown_requested
    /\ state.cycles_total < MaxCycles
    /\ state' = open_log(new_cycle(state, clock))
    /\ open_handles' = open_handles \cup {state.cycles_total + 1}
    /\ pc' = "launch"
    /\ hist' = [hist EXCEPT !.sum_lines = @ + state.cycle_lines,
                            !.sum_decisions = @ + state.cycle_decisions,
                            !.produced = <<>>, !.classified = <<>>, !.checked = <<>>,
                            !.crashes_before = state.crashes_total,
                            !.stimuli_before = state.stimuli_sent,
                            !.launch = "none",
                            !.end = "none", !.end_produced = <<>>,
                            !.end_proc = NoProc, !.exit_seen = FALSE]
    /\ UNCHANGED <<args, proc, pipe, monitor, loc, clock, others>>

\* A launch step without the "continue": after None it goes on to the
\* monitor.
LaunchWithoutContinue ==
    /\ pc = "launch"
    /\ \E l \in launch_qemu :
          /\ proc' = l.proc
          /\ pc' = CASE l.result = "ok" -> "connect"
                     [] l.result = "none" -> "connect"
                     [] OTHER -> "exit"
          /\ hist' = CASE l.result = "ok" -> [hist EXCEPT !.launches = @ + 1,
                                                           !.launch = "ok"]
                       [] l.result = "none" -> [hist EXCEPT !.launch = "failed"]
                       [] OTHER -> main_after([hist EXCEPT !.fault = "launch",
                                                           !.launch = "raised"], TRUE)
    /\ pipe' = <<>>
    /\ UNCHANGED <<state, args, monitor, loc, clock, open_handles, others>>

\* launch_qemu; when it returned None, the pause and "continue"; when it
\* raised, the exception leaves run_probe.
Launch ==
    /\ pc = "launch"
    /\ \E l \in launch_qemu :
          /\ proc' = l.proc
          /\ pc' = CASE l.result = "ok" -> "connect"
                     [] l.result = "none" -> "loop_head"
                     [] OTHER -> "exit"
          /\ hist' = CASE l.result = "ok" -> [hist EXCEPT !.launches = @ + 1,
                                                           !.launch = "ok"]
                       [] l.result = "none" -> [hist EXCEPT !.launch = "failed"]
                       [] OTHER -> main_after([hist EXCEPT !.fault = "launch",
                                                           !.launch = "raised"], TRUE)
    /\ pipe' = <<>>
    /\ UNCHANGED <<state, args, monitor, loc, clock, open_handles, others>>

\* MonitorSocket(sock_path), the settle delay, connect(), and the locals of
\* the Active loop.
Connect ==
    /\ pc = "connect"
    /\ monitor' \in monitor_connect(NoMonitor)
    /\ loc' = [deadline |-> clock + cycle_timeout, last_poke |-> clock,
               death_detected |-> FALSE, remaining_buf |-> <<>>]
    /\ pc' = "active"
    /\ UNCHANGED <<state, args, proc, pipe, clock, open_handles, others, hist>>

---------------------------------------------------------------------------
\* run_probe: the cleanup of a cycle.

\* A cleanup that counts a crashed cycle twice.
count_crash_twice(st, death_detected) ==
    IF death_detected THEN [st EXCEPT !.crashes_total = @ + 2] ELSE st

count_crash(st, death_detected) ==
    IF death_detected THEN [st EXCEPT !.crashes_total = @ + 1] ELSE st

\* The trailer.
write_trailer(st, now, death_detected) ==
    [st EXCEPT !.log = Append(@, <<"trailer", now - st.cycle_start, death_detected>>)]

\* A cleanup that leaves the process of the cycle alone.
teardown_skipped(p) == {p}

\* What the cleanup does to the process of the cycle.
teardown(p) == kill_qemu(p)

\* The cleanup that follows the Active loop, from the state st the loop
\* left, with its death_detected: the monitor closed, the process killed,
\* the crash counted, the trailer written and the log closed, the pause.  A
\* close whose flush raises releases the file, loses the trailer and leaves
\* run_probe.  h is the history up to here.
Cleanup(st, death_detected, h) ==
    /\ monitor' = monitor_close(monitor)
    /\ \E q \in teardown(proc) :
          others' = IF q.st = "running" THEN Append(others, q) ELSE others
    /\ proc' = NoProc
    /\ pipe' = <<>>
    /\ loc' = NoLocals
    /\ LET counted == count_crash(st, death_detected)
           done == [cycle |-> st.current_cycle,
                    counted |-> counted.crashes_total - st.crashes_total,
                    death_detected |-> death_detected]
       IN  IF st.cycle_log_fd = "open"
           THEN \E closed \in BOOLEAN :
                  IF closed
                  THEN /\ state' = [write_trailer(counted, clock, death_detected)
                                       EXCEPT !.cycle_log_fd = "none"]
                       /\ open_handles' = open_handles \ {st.current_cycle}
                       /\ pc' = "loop_head"
                       /\ hist' = [h EXCEPT !.closed = done]
                  ELSE /\ state' = counted
                       /\ open_handles' = open_handles \ {st.current_cycle}
                       /\ pc' = "exit"
                       /\ hist' = main_after([h EXCEPT !.fault = "close"], TRUE)
           ELSE /\ state' = counted
                /\ open_handles' = open_handles
                /\ pc' = "loop_head"
                /\ hist' = [h EXCEPT !.closed = done]

---------------------------------------------------------------------------
\* run_probe: the Active loop.

EndLoop(h, why) ==
    [h EXCEPT !.end = why, !.end_produced = h.produced, !.end_proc = proc]

\* The checks at the head of an iteration that let it go on to select: no
\* shutdown request, the deadline not reached, the process not exited.
HeadPasses(st, l, p, now) ==
    ~st.shutdown_requested /\ now < l.deadline /\ p.st # "exited"

\* An iteration that leaves the loop at its head: the shutdown flag, the
\* deadline, or the exit check with its drain of the leftover output (an
\* exception of the drain is caught and passed over).  The cleanup follows.
ActiveHead ==
    /\ pc = "active"
    /\ ~HeadPasses(state, loc, proc, clock)
    /\ IF state.shutdown_requested
       THEN Cleanup(state, loc.death_detected, EndLoop(hist, "shutdown"))
       ELSE IF clock >= loc.deadline
       THEN Cleanup(state, loc.death_detected, EndLoop(hist, "deadline"))
       ELSE \E k \in Raisable(state, splitlines(pipe)) :
              LET r == Feed(state, loc.death_detected, splitlines(pipe), 1, k)
              IN  Cleanup(r.st, r.death \/ proc.code # 0,
                          [EndLoop(hist, "exit") EXCEPT
                              !.classified = @ \o r.handed, !.checked = @ \o r.checked,
                              !.exit_seen = TRUE])
    /\ UNCHANGED <<args, clock>>

\* An iteration in which select.select raises: the loop is left.
SelectError ==
    /\ pc = "active"
    /\ HeadPasses(state, loc, proc, clock)
    /\ Cleanup(state, loc.death_detected, EndLoop(hist, "select_error"))
    /\ UNCHANGED <<args, clock>>

\* The records a burst of n stimuli adds to the cycle log.
RECURSIVE poke_log(_, _)
poke_log(st, n) ==
    IF n = 0 \/ st.cycle_log_fd # "open" THEN st
    ELSE poke_log([st EXCEPT !.log = Append(@, <<"poke">>)], n - 1)

\* A stimulus condition that does not ask how long ago the last injection was.
poke_due_any_time(m, l, now, interval) == m.connected

\* A stimulus condition that does not ask whether the monitor is alive.
poke_due_unconnected(m, l, now, interval) == (now - l.last_poke) >= interval

\* Whether an iteration injects stimuli.
poke_due(m, l, now, interval) == m.connected /\ (now - l.last_poke) >= interval

\* A loop that is left after the lines of any iteration.
death_break_always(death_detected) == TRUE

\* Whether the loop is left after the lines of this iteration.
death_break(death_detected) == death_detected

\* A whole iteration: select, the read of what is available, the
\* classification of the complete lines with the death check of each, the
\* break on death (the cleanup follows), the stimulus injection, the
\* dashboard refresh.  An exception of classify_line leaves run_probe, with
\* the shutdown flag set when SIGINT arrived earlier in the iteration.
Iterate ==
    /\ pc = "active"
    /\ HeadPasses(state, loc, proc, clock)
    /\ LET buf == loc.remaining_buf \o pipe
           s == SplitBuf(buf)
       IN  \E k \in Raisable(state, s.lines) :
             LET r == Feed(state, loc.death_detected, s.lines, 1, k)
                 read == [loc EXCEPT !.death_detected = r.death, !.remaining_buf = s.rest]
                 seen == [hist EXCEPT !.classified = @ \o r.handed,
                                      !.checked = @ \o r.checked]
             IN  IF r.raised
                 THEN \E sigint \in BOOLEAN :
                      /\ pc' = "exit"
                      /\ state' = [r.st EXCEPT !.shutdown_requested = sigint]
                      /\ pipe' = <<>>
                      /\ hist' = main_after(
                                    [seen EXCEPT !.fault = "classify",
                                                 !.sigint_cycle = IF sigint
                                                                  THEN state.current_cycle
                                                                  ELSE @,
                                                 !.sigint_launches = IF sigint
                                                                     THEN hist.launches
                                                                     ELSE @], TRUE)
                      /\ UNCHANGED <<loc, monitor, proc, others, open_handles>>
                 ELSE IF death_break(r.death)
                 THEN Cleanup(r.st, r.death, EndLoop(seen, "death"))
                 ELSE IF poke_due(monitor, loc, clock, poke_interval)
                 THEN /\ pc' = "active"
                      /\ pipe' = <<>>
                      /\ loc' = [read EXCEPT !.last_poke = clock]
                      /\ monitor' \in Burst(monitor, poke_burst)
                      /\ state' = poke_log([r.st EXCEPT !.stimuli_sent = @ + poke_burst],
                                           poke_burst)
                      /\ hist' = seen
                      /\ UNCHANGED <<proc, others, open_handles>>
                 ELSE /\ pc' = "active"
                      /\ pipe' = <<>>
                      /\ state' = r.st
                      /\ loc' = read
                      /\ hist' = seen
                      /\ UNCHANGED <<monitor, proc, others, open_handles>>
    /\ UNCHANGED <<args, clock>>

---------------------------------------------------------------------------
\* The environment.

\* The process and the clock are looked at by the iterations of the Active
\* loop (time.monotonic(), proc.poll(), select and read); what they do
\* outside the loop shows in its first iteration, and is modelled there.
\* What they do between a SIGINT and the loop head that sees the flag is
\* the same as their doing it just before the SIGINT.
Observed == pc = "active" /\ ~state.shutdown_requested

\* handle_sigint.  The flag is read at the head of the outer loop and at the
\* head of the Active loop: the signal arrives before the outer head, between
\* the outer head and the launch, or during the Active loop.
Sigint ==
    /\ pc \in {"loop_head", "launch", "active"}
    /\ ~state.shutdown_requested
    /\ state' = [state EXCEPT !.shutdown_requested = TRUE]
    /\ hist' = [hist EXCEPT !.sigint_cycle = IF pc = "active" THEN state.current_cycle ELSE @,
                            !.sigint_launches = hist.launches]
    /\ UNCHANGED <<pc, args, proc, pipe, monitor, loc, clock, open_handles, others>>

\* The supervised process writes to its output.
Emit ==
    /\ Observed
    /\ proc.st = "running"
    /\ hist.emitted + clock < MaxEvents
    /\ \E w \in Writes :
          /\ pipe' = pipe \o w
          /\ hist' = [hist EXCEPT !.emitted = @ + 1, !.produced = @ \o w]
    /\ UNCHANGED <<state, pc, args, proc, monitor, loc, clock, open_handles, others>>

\* The supervised process exits by itself.
ProcExit ==
    /\ Observed
    /\ proc.st = "running"
    /\ \E code \in {0, 1} : proc' = [proc EXCEPT !.st = "exited", !.code = code]
    /\ UNCHANGED <<state, pc, args, pipe, monitor, loc, clock, open_handles, others, hist>>

Tick ==
    /\ Observed
    /\ hist.emitted + clock < MaxEvents
    /\ clock' = clock + 1
    /\ UNCHANGED <<state, pc, args, proc, pipe, monitor, loc, open_handles, others, hist>>

\* A log file object that state.cycle_log_fd no longer names is closed by
\* the garbage collector.
GcClose ==
    /\ \E h \in open_handles :
          /\ h # state.current_cycle \/ state.cycle_log_fd # "open"
          /\ open_handles' = open_handles \ {h}
    /\ UNCHANGED <<state, pc, args, proc, pipe, monitor, loc, clock, others, hist>>

Next ==
    \/ MainStart
    \/ LoopExit \/ LoopHead \/ Launch \/ Connect
    \/ ActiveHead \/ SelectError \/ Iterate
    \/ Sigint \/ Emit \/ ProcExit \/ Tick \/ GcClose

Spec == Init /\ [][Next]_vars

---------------------------------------------------------------------------
\* The run under fair scheduling and advancing time.  The flow of control
\* of main and run_probe is sequential code: a step that can be taken is
\* taken.  The clock goes on at least up to the deadline of the cycle.
\* The process, the SIGINT, the errors of select and of the log are not
\* bound to happen.

TickLive ==
    /\ Observed
    /\ clock < loc.deadline
    /\ clock' = clock + 1
    /\ UNCHANGED <<state, pc, args, proc, pipe, monitor, loc, open_handles, others, hist>>

NextLive ==
    \/ MainStart
    \/ LoopExit \/ LoopHead \/ Launch \/ Connect
    \/ ActiveHead \/ SelectError \/ Iterate
    \/ Sigint \/ Emit \/ ProcExit \/ TickLive \/ GcClose

\* The Active loop is at an iteration whose head leaves it.
LoopOver == pc = "active" /\ ~HeadPasses(state, loc, proc, clock)

\* ActiveHead can be taken exactly when LoopOver holds; its weak fairness
\* is written with that state predicate.
Fairness ==
    /\ WF_vars(MainStart)
    /\ WF_vars(LoopExit) /\ WF_vars(LoopHead) /\ WF_vars(Launch) /\ WF_vars(Connect)
    /\ WF_vars(TickLive)
    /\ ([]<>(~LoopOver) \/ []<><<ActiveHead>>_vars)

SpecLive == Init /\ [][NextLive]_vars /\ Fairness

---------------------------------------------------------------------------
\* The run with --no-poke, with a cycle timeout shorter or longer than the
\* interval that main passes for it.  Between two iterations of the Active
\* loop the clock can also go on by that interval at once.

parse_args_no_poke ==
    { [no_poke |-> TRUE, cycle_timeout |-> t] : t \in {CycleTimeout, NoPokeInterval + 1} }

InitNoPoke ==
    /\ state = ProbeState
    /\ pc = "main"
    /\ args \in parse_args_no_poke
    /\ proc = NoProc
    /\ pipe = <<>>
    /\ monitor = NoMonitor
    /\ loc = NoLocals
    /\ clock = 0
    /\ open_handles = {}
    /\ others = <<>>
    /\ hist = History

TickLong ==
    /\ Observed
    /\ clock < loc.deadline
    /\ clock' = clock + NoPokeInterval
    /\ UNCHANGED <<state, pc, args, proc, pipe, monitor, loc, open_handles, others, hist>>

NextNoPoke ==
    \/ MainStart
    \/ LoopExit \/ LoopHead \/ Launch \/ Connect
    \/ ActiveHead \/ SelectError \/ Iterate
    \/ Sigint \/ Emit \/ ProcExit \/ Tick \/ TickLong \/ GcClose

SpecNoPoke == InitNoPoke /\ [][NextNoPoke]_vars

---------------------------------------------------------------------------
\* classify_line called over and over on one ProbeState, as the Active loop
\* does during a long cycle, until the recent-signal buffer has been full
\* for a while.  The lines are free at the start (the entries evicted
\* first) and once the buffer is about to fill; in between they are a
\* fixed scheduler line.

RingLines ==
    { <<"NX">>, <<"BOOT", SP>>, <<"OTHER">>, <<"NX", "HEAL">> }

RingChoice(n) ==
    IF n < RingFree \/ n >= MAX_RECENT - 1 THEN RingLines ELSE { <<"SCHED">> }

InitRing ==
    /\ state = ProbeState
    /\ pc = "ring"
    /\ args \in parse_args
    /\ proc = NoProc
    /\ pipe = <<>>
    /\ monitor = NoMonitor
    /\ loc = NoLocals
    /\ clock = 0
    /\ open_handles = {}
    /\ others = <<>>
    /\ hist = History

RingClassify ==
    /\ pc = "ring"
    /\ state.lines_total < MAX_RECENT + RingExtra
    /\ \E line \in RingChoice(state.lines_total) :
          /\ state' = classify_line(line, state)
          /\ hist' = [hist EXCEPT !.classified = Append(@, line)]
    /\ UNCHANGED <<pc, args, proc, pipe, monitor, loc, clock, open_handles, others>>

NextRing == RingClassify

SpecRing == InitRing /\ [][NextRing]_vars

---------------------------------------------------------------------------
\* One line through the body of the read loop, on a fresh ProbeState or on
\* that of a cycle just started, with its log open:
\* classify_line(line, state), then is_death(line) and the death flag.  The
\* line is any sequence of at most MaxTokens tokens.

LineTokens ==
    { "NX", "ADJ", "HEAL", "DRIFT", "NXL", "CORE", "BOOT", "SCHED", "DEMO",
      "PANIC", "TF", "SD", "KVM", "HALT", "HEAP", "OTHER", SP }

Lines == UNION { [1..n -> LineTokens] : n \in 0..MaxTokens }

InitLine ==
    /\ state \in {ProbeState, open_log(new_cycle(ProbeState, 0))}
    /\ pc = "line"
    /\ args \in parse_args
    /\ proc = NoProc
    /\ pipe \in { line \o <<NL>> : line \in Lines }
    /\ monitor = NoMonitor
    /\ loc = NoLocals
    /\ clock = 0
    /\ open_handles = {}
    /\ others = <<>>
    /\ hist = History

ClassifyOne ==
    /\ pc = "line"
    /\ LET s == SplitBuf(loc.remaining_buf \o pipe)
           r == Feed(state, loc.death_detected, s.lines, 1, 0)
       IN  /\ state' = r.st
           /\ loc' = [loc EXCEPT !.death_detected = r.death, !.remaining_buf = s.rest]
           /\ hist' = [hist EXCEPT !.classified = @ \o r.handed,
                                   !.checked = @ \o r.checked]
    /\ pipe' = <<>>
    /\ pc' = "line_done"
    /\ UNCHANGED <<args, proc, monitor, clock, open_handles, others>>

NextLine == ClassifyOne

SpecLine == InitLine /\ [][NextLine]_vars

---------------------------------------------------------------------------
\* One call of connect() on a new MonitorSocket, with any number of retries
\* up to MaxRetries and any behaviour of the endpoint.

InitConnect ==
    /\ state = ProbeState
    /\ pc = "connect_call"
    /\ args \in parse_args
    /\ proc = NoProc
    /\ pipe = <<>>
    /\ monitor = NoMonitor
    /\ loc = NoLocals
    /\ clock = 0
    /\ open_handles = {}
    /\ others = <<>>
    /\ hist = History

ConnectCall ==
    /\ pc = "connect_call"
    /\ \E retries \in 0..MaxRetries :
          \E reach \in [1..retries -> Endpoint] :
             LET r == connect(monitor, reach, retries)
             IN  /\ monitor' = r.m
                 /\ hist' = [hist EXCEPT !.call =
                                [retries |-> retries, reach |-> reach,
                                 returned |-> r.returned, attempts |-> r.attempts,
                                 sleeps |-> r.sleeps]]
    /\ pc' = "connect_done"
    /\ UNCHANGED <<state, args, proc, pipe, loc, clock, open_handles, others>>

NextConnect == ConnectCall

SpecConnect == InitConnect /\ [][NextConnect]_vars

---------------------------------------------------------------------------
\* kill_qemu called once and again on one handle: None, a running process,
\* or a process that has exited with any code up to MaxExitCode or by any
\* signal up to that number.

Handles ==
    {NoProc, [st |-> "running", code |-> 0, signalled |-> "none"]}
    \cup { [st |-> "exited", code |-> c, signalled |-> "none"] :
              c \in (-MaxExitCode)..MaxExitCode }

InitKill ==
    /\ state = ProbeState
    /\ pc = "kill_call"
    /\ args \in parse_args
    /\ proc \in Handles
    /\ pipe = <<>>
    /\ monitor = NoMonitor
    /\ loc = NoLocals
    /\ clock = 0
    /\ open_handles = {}
    /\ others = <<>>
    /\ hist = History

KillCall ==
    /\ pc = "kill_call"
    /\ hist.kill.calls < 2
    /\ \E obeys \in Obeys :
          LET r == kill_qemu_run(proc, obeys)
          IN  /\ proc' = r.proc
              /\ hist' = [hist EXCEPT !.kill =
                             [calls |-> @.calls + 1, before |-> proc, obeys |-> obeys,
                              tried |-> r.tried, sent |-> r.sent, waited |-> r.waited,
                              returned |-> r.returned]]
    /\ UNCHANGED <<state, pc, args, pipe, monitor, loc, clock, open_handles, others>>

NextKill == KillCall

SpecKill == InitKill /\ [][NextKill]_vars

---------------------------------------------------------------------------
\* One MonitorSocket from its construction on, used as run_probe uses it:
\* connect() first, then, in any order and up to MaxOps operations in all,
\* send(), close(), and the stimulus injection of a loop iteration at a time
\* now not earlier than the last.

InitMonitor ==
    /\ state = ProbeState
    /\ pc = "monitor_ops"
    /\ args \in parse_args
    /\ proc = NoProc
    /\ pipe = <<>>
    /\ monitor = NoMonitor
    /\ loc = NoLocals
    /\ clock = 0
    /\ open_handles = {}
    /\ others = <<>>
    /\ hist = History

\* The record of an operation that starts now.
OpRecord(name) ==
    [NoOp EXCEPT !.n = hist.op.n + 1, !.name = name, !.prev = hist.op.name,
                 !.before = monitor, !.last_poke = loc.last_poke,
                 !.sent_before = state.stimuli_sent]

MonitorConnect ==
    /\ pc = "monitor_ops"
    /\ hist.op.n = 0
    /\ \E e \in Endpoint :
          monitor' = connect(monitor, <<e>>, 1).m
    /\ hist' = [hist EXCEPT !.op = OpRecord("connect")]
    /\ UNCHANGED <<state, pc, args, proc, pipe, loc, clock, open_handles, others>>

MonitorSend ==
    /\ pc = "monitor_ops"
    /\ hist.op.n \in 1..(MaxOps - 1)
    /\ \E net \in Net :
          LET r == send(monitor, net)
          IN  /\ monitor' = r.m
              /\ hist' = [hist EXCEPT !.op =
                             [OpRecord("send") EXCEPT !.net = net,
                                                      !.response = r.response,
                                                      !.touched = r.touched,
                                                      !.raised = r.raised]]
    /\ UNCHANGED <<state, pc, args, proc, pipe, loc, clock, open_handles, others>>

MonitorClose ==
    /\ pc = "monitor_ops"
    /\ hist.op.n \in 1..(MaxOps - 1)
    /\ monitor' = monitor_close(monitor)
    /\ hist' = [hist EXCEPT !.op = OpRecord("close")]
    /\ UNCHANGED <<state, pc, args, proc, pipe, loc, clock, open_handles, others>>

\* The stimulus injection of an iteration of the Active loop.
MonitorStimulus ==
    /\ pc = "monitor_ops"
    /\ hist.op.n \in 1..(MaxOps - 1)
    /\ \E now \in clock..(clock + PokeInterval) :
          /\ clock' = now
          /\ IF poke_due(monitor, loc, now, poke_interval)
             THEN \E nets \in [1..poke_burst -> Net] :
                    LET b == stimulus_burst(monitor, nets)
                    IN  /\ monitor' = b.m
                        /\ loc' = [loc EXCEPT !.last_poke = now]
                        /\ state' = poke_log([state EXCEPT !.stimuli_sent = @ + b.counted],
                                             poke_burst)
                        /\ hist' = [hist EXCEPT !.op =
                                       [OpRecord("stimulus") EXCEPT
                                           !.attempts = b.attempts,
                                           !.dead_calls = b.dead_calls]]
             ELSE /\ hist' = [hist EXCEPT !.op = OpRecord("stimulus")]
                  /\ UNCHANGED <<monitor, loc, state>>
    /\ UNCHANGED <<pc, args, proc, pipe, open_handles, others>>

NextMonitor == MonitorConnect \/ MonitorSend \/ MonitorClose \/ MonitorStimulus

SpecMonitor == InitMonitor /\ [][NextMonitor]_vars

---------------------------------------------------------------------------
\* Properties.

\* What the cycle has added to crashes_total.
CrashDelta == state.crashes_total - hist.crashes_before

\* is_death matched one of the lines of the cycle it was evaluated on.
DeathObserved == \E i \in 1..Len(hist.checked) : is_death(hist.checked[i])

\* The Active loop of the cycle has ended and its cleanup has counted.
CycleCounted == hist.end # "none"

\* Processes launched by the harness that are running.
RunningCount == (IF proc.st = "running" THEN 1 ELSE 0) + Len(others)

\* C1: for a cycle whose launch succeeded, crashes_total grows by exactly 1 at
\* the cycle's close if and only if a death signature was observed in its
\* output or its process exited with a non-zero code, and by 0 otherwise (a
\* deadline-only ending included).
C1_CrashIffDeathOrNonZeroExit ==
    CycleCounted =>
        CrashDelta = IF DeathObserved
                        \/ (hist.end_proc.st = "exited" /\ hist.end_proc.code # 0)
                     THEN 1 ELSE 0

\* C2: when a line classified during a cycle matched a death signature, the
\* cycle is counted in crashes_total once it is over, whatever the process
\* does afterwards.
C2_DeathLineCounted ==
    (pc \in {"loop_head", "exit"} /\ DeathObserved) => CrashDelta = 1

\* C3: a shutdown request that arrives during the Active loop of a cycle is
\* followed by that cycle's cleanup (monitor closed, process terminated,
\* trailer written, log closed), by no further cycle, and by one final report.
C3_ShutdownCleansUp ==
    /\ hist.sigint_cycle > 0 => state.cycles_total = hist.sigint_cycle
    /\ (pc = "exit" /\ hist.sigint_cycle > 0) =>
          /\ ~monitor.sock
          /\ proc.st # "running"
          /\ hist.closed.cycle = hist.sigint_cycle
          /\ state.log[Len(state.log)][1] = "trailer"
          /\ open_handles = {}
          /\ hist.reports = 1

\* C4: once run_probe has been entered the final report is printed exactly
\* once, whether the loop ended by a shutdown request or by an exception
\* that left run_probe: never twice, and once when main is done.
C4_ReportExactlyOnce ==
    /\ hist.reports <= 1
    /\ (pc = "exit" /\ hist.entered) => hist.reports = 1

C4_Witness ==
    pc = "exit" /\ hist.entered /\ hist.fault = "classify" /\ hist.reports = 1

\* C5: however the Active loop ended, all the output the process had written
\* by then, a trailing partial line and unread pipe data included, has been
\* passed to classify_line, line by line, when the cycle is closed.
C5_NoOutputLost ==
    CycleCounted => hist.classified = splitlines(hist.end_produced)

\* C6: no death signature is skipped: a line handed to classify_line that
\* matches a death signature has had is_death evaluated on it when the cycle
\* is closed, and a match ends the Active loop in the iteration that read it.
C6_DeathNeverSkipped ==
    /\ CycleCounted =>
          \A i \in 1..Len(hist.classified) :
              is_death(hist.classified[i]) => i <= Len(hist.checked)
    /\ DeathObserved => pc # "active"

\* C7: each lifetime counter is the sum of its per-cycle counter over all the
\* cycles so far, the current one included: lines_total of cycle_lines,
\* decisions_detected of cycle_decisions.
C7_LifetimeIsSumOfCycles ==
    /\ state.lines_total = hist.sum_lines + state.cycle_lines
    /\ state.decisions_detected = hist.sum_decisions + state.cycle_decisions

C7_Witness ==
    /\ state.cycles_total = 2
    /\ hist.sum_lines > 0
    /\ state.cycle_lines > 0

\* C8: no step lowers a lifetime counter: cycles_total, crashes_total,
\* lines_total, stimuli_sent, decisions_detected and the five signal counts.
C8_CountersMonotonic ==
    [][ /\ state'.cycles_total >= state.cycles_total
        /\ state'.crashes_total >= state.crashes_total
        /\ state'.lines_total >= state.lines_total
        /\ state'.stimuli_sent >= state.stimuli_sent
        /\ state'.decisions_detected >= state.decisions_detected
        /\ state'.nexus_signals >= state.nexus_signals
        /\ state'.boot_signals >= state.boot_signals
        /\ state'.panic_signals >= state.panic_signals
        /\ state'.mem_signals >= state.mem_signals
        /\ state'.sched_signals >= state.sched_signals ]_vars

C8_Witness ==
    /\ state.cycles_total = 2
    /\ state.lines_total > 0
    /\ state.stimuli_sent > 0

\* C9: at most one cycle log is open at any time: the log of a cycle is
\* closed before the log of the next is opened, on the launch-failure path
\* too.
C9_OneLogOpen == Cardinality(open_handles) <= 1

\* C10, as stated: a cycle launches at most one process and two processes
\* launched by the harness are never running at once.
C10_NeverTwoRunning ==
    /\ hist.launches <= state.cycles_total
    /\ RunningCount <= 1

\* C10, amended: a cycle launches at most one process, and kill_qemu has been
\* called on the process of a cycle and has returned, its escalation to
\* SIGKILL made when the process outlived it, before the next cycle launches.
C10_KilledBeforeNextLaunch ==
    /\ hist.launches <= state.cycles_total
    /\ pc = "launch" => proc = NoProc
    /\ Len(others) + (IF proc.st = "none" THEN 0 ELSE 1) <= hist.launches
    /\ \A i \in 1..Len(others) : others[i].signalled = "KILL"

C10_Witness ==
    /\ pc = "active"
    /\ hist.launches = 2
    /\ proc.st = "running"
    /\ Len(others) = 1

\* C11: kill_qemu runs on every exit path of a cycle whose launch succeeded,
\* an exception raised inside the Active loop included: when main is done no
\* launched process is left running that kill_qemu was never called on.
C11_TerminatedOnEveryPath ==
    pc = "exit" => proc.st # "running"

\* C12: the monitor connection of a cycle is closed at the end of the cycle,
\* however the cycle ended: outside the Active loop, and when main is done,
\* no monitor socket is open, so none is when the next cycle connects.
C12_MonitorClosedAtCycleEnd ==
    pc \in {"loop_head", "launch", "connect", "exit"} => ~monitor.sock

\* The entries the lines make, in order: one per line that a rule matches.
RECURSIVE Entries(_)
Entries(lines) ==
    IF lines = <<>> THEN <<>>
    ELSE LET front == Entries(SubSeq(lines, 1, Len(lines) - 1))
             line == lines[Len(lines)]
             k == FirstMatch(rstrip(line))
         IN  IF k = 0 THEN front
             ELSE Append(front, <<SIGNAL_PATTERNS[k].tag, rstrip(line)>>)

\* The last n elements of a sequence.
LastN(seq, n) ==
    IF Len(seq) <= n THEN seq ELSE SubSeq(seq, Len(seq) - n + 1, Len(seq))

\* C13: after any sequence of classified lines the recent-signal buffer holds
\* at most MAX_RECENT entries, and they are the most recent matched entries
\* in arrival order: when full, the oldest is the one evicted.
C13_RingHoldsMostRecent ==
    /\ Len(state.recent_signals) <= MAX_RECENT
    /\ state.recent_signals = LastN(Entries(hist.classified), MAX_RECENT)

C13_Witness ==
    /\ Len(state.recent_signals) = MAX_RECENT
    /\ Len(Entries(hist.classified)) > MAX_RECENT
    /\ state.recent_signals[1] # Entries(hist.classified)[1]

\* The rules whose pattern the stripped line matches.
Matching(line) ==
    {k \in 1..Len(SIGNAL_PATTERNS) : Search(SIGNAL_PATTERNS[k], rstrip(line))}

\* The earliest-declared of a non-empty set of rules.
Earliest(rules) == CHOOSE k \in rules : \A m \in rules : k <= m

\* The counters of ProbeState that a line tagged with tag adds 1 to.
CountersOf(tag) ==
    CASE tag \in {"ADAPT", "HEAL", "META"} -> {"decisions_detected", "cycle_decisions"}
      [] tag \in {"NEXUS", "nexus"} -> {"nexus_signals"}
      [] tag = "BOOT" -> {"boot_signals"}
      [] tag \in {"PANIC", "CRASH"} -> {"panic_signals"}
      [] tag = "MEM" -> {"mem_signals"}
      [] tag = "SCHED" -> {"sched_signals"}
      [] OTHER -> {}

SignalCounters ==
    {"decisions_detected", "cycle_decisions", "nexus_signals", "boot_signals",
     "panic_signals", "mem_signals", "sched_signals"}

\* C14: a classified line gets at most one tag, that of the first rule in the
\* order of SIGNAL_PATTERNS that matches it: only that rule's counters grow,
\* by 1, and exactly one entry with that tag joins the recent-signal buffer;
\* a line no rule matches changes neither.
C14_FirstMatchWins ==
    pc = "line_done" =>
        LET line == hist.classified[1]
            rules == Matching(line)
            tag == SIGNAL_PATTERNS[Earliest(rules)].tag
        IN  /\ state.lines_total = 1
            /\ IF rules = {}
               THEN /\ state.recent_signals = <<>>
                    /\ \A c \in SignalCounters : state[c] = 0
               ELSE /\ state.recent_signals = << <<tag, rstrip(line)>> >>
                    /\ \A c \in SignalCounters :
                          state[c] = IF c \in CountersOf(tag) THEN 1 ELSE 0

C14_Witness ==
    /\ pc = "line_done"
    /\ Cardinality(Matching(hist.classified[1])) >= 2
    /\ state.recent_signals[1][1] = "ADAPT"
    /\ state.nexus_signals = 0

\* The tokens of the death signatures.
DeathTokens == {"TF", "SD", "KVM", "HALT"}

\* C15: is_death and classify_line do not depend on each other: the death
\* flag is set exactly when the line holds a death signature, whatever rule
\* tags the line, and the line is tagged by its first matching rule whether
\* or not it holds a death signature.
C15_DeathAndTagIndependent ==
    pc = "line_done" =>
        LET line == hist.classified[1]
            rules == Matching(line)
        IN  /\ loc.death_detected = (\E i \in 1..Len(line) : line[i] \in DeathTokens)
            /\ rules # {} =>
                  /\ Len(state.recent_signals) = 1
                  /\ state.recent_signals[1][1] = SIGNAL_PATTERNS[Earliest(rules)].tag

C15_Witness ==
    /\ pc = "line_done"
    /\ hist.classified[1] = <<"NX", "TF">>
    /\ loc.death_detected
    /\ state.recent_signals[1][1] = "NEXUS"
    /\ state.nexus_signals = 1
    /\ state.panic_signals = 0

\* The poke records of the cycle log.
PokeRecords == {i \in 1..Len(state.log) : state.log[i][1] = "poke"}

\* C16: when launch_qemu returns None (the executable is absent) the cycle is
\* over after the pause: crashes_total is as before, no monitor was made or
\* connected, no stimulus was sent, no line was classified, and run_probe is
\* at the head of its loop, from where the next cycle starts unless shutdown
\* was requested.
C16_LaunchFailureSkipsCycle ==
    hist.launch = "failed" =>
        /\ CrashDelta = 0
        /\ monitor = NoMonitor
        /\ state.stimuli_sent = hist.stimuli_before /\ PokeRecords = {}
        /\ hist.classified = <<>> /\ state.cycle_lines = 0
        /\ proc = NoProc
        /\ pc = "loop_head" \/ (pc = "exit" /\ state.shutdown_requested)

C16_Witness ==
    /\ hist.launch = "failed"
    /\ state.current_cycle = 2
    /\ state.lines_total > 0
    /\ state.stimuli_sent > 0
    /\ pc = "loop_head"

\* C17: a launch failure of any kind ends its cycle only: run_probe is not
\* left because of it, and goes on from the head of its loop.
C17_LaunchFailureNotFatal ==
    hist.launch \in {"failed", "raised"} =>
        pc = "loop_head" \/ (pc = "exit" /\ state.shutdown_requested)

\* monitor.connect() failed in this cycle: the Active loop runs with a
\* monitor that has no socket.
ConnectFailed == pc = "active" /\ ~monitor.sock

\* C18: when monitor.connect() failed, the cycle is in its Active loop all
\* the same and goes through it without a stimulus: stimuli_sent stays what
\* it was when the cycle started and the log gets no poke record, up to the
\* iteration that ends the loop.
C18_NoStimulusWithoutMonitor ==
    /\ [](ConnectFailed =>
            /\ state.stimuli_sent = hist.stimuli_before
            /\ PokeRecords = {})
    /\ [][ConnectFailed => state'.stimuli_sent = state.stimuli_sent]_vars

C18_Witness ==
    /\ ConnectFailed
    /\ clock - loc.last_poke >= 2 * PokeInterval
    /\ state.cycle_lines > 0

\* The attempts whose connection is made and kept.
Reached(call) == {i \in 1..call.retries : call.reach[i] \in {"greets", "silent"}}

\* C19: connect() with no attempt that succeeds makes exactly retries
\* attempts, sleeps the delay after each, and returns False with the
\* monitor not alive; it never makes more than retries attempts; and it
\* returns True at the first attempt that succeeds, with no attempt after it.
C19_ConnectRetriesExactly ==
    pc = "connect_done" =>
        LET call == hist.call
            first == CHOOSE i \in Reached(call) : \A j \in Reached(call) : i <= j
        IN  /\ call.attempts <= call.retries
            /\ IF Reached(call) = {}
               THEN /\ call.attempts = call.retries
                    /\ call.sleeps = call.retries
                    /\ ~call.returned
                    /\ ~monitor.connected
               ELSE /\ call.attempts = first
                    /\ call.sleeps = first - 1
                    /\ call.returned
                    /\ monitor.connected /\ monitor.sock

C19_Witness ==
    /\ pc = "connect_done"
    /\ hist.call.retries = MaxRetries
    /\ Reached(hist.call) = {}
    /\ hist.call.attempts = MaxRetries
    /\ ~monitor.connected

\* C20: kill_qemu on a handle whose process has exited, be it before any
\* call or by a first call on the same handle, returns without signalling,
\* without a timed-out wait, and leaves the handle's process as it was.
C20_KillIdempotentOnExited ==
    (hist.kill.calls >= 1 /\ hist.kill.before.st = "exited") =>
        /\ proc = hist.kill.before
        /\ hist.kill.sent = <<>>
        /\ hist.kill.waited = 0

C20_Witness ==
    /\ hist.kill.calls = 2
    /\ hist.kill.before.st = "exited"
    /\ hist.kill.before.signalled = "TERM"
    /\ proc = hist.kill.before

\* C21: kill_qemu on a running process tries SIGTERM first and waits up to
\* TermGrace; it tries SIGKILL, once and after SIGTERM, exactly when the
\* process had not exited within that wait, and then waits up to KillGrace;
\* it returns in every case, also when the process outlived both waits and
\* when no signal could be delivered.
C21_EscalatesInOrderAndReturns ==
    (hist.kill.calls >= 1 /\ hist.kill.before.st = "running") =>
        LET k == hist.kill
        IN  /\ k.returned
            /\ k.tried[1] = "TERM"
            /\ k.tried = IF k.obeys = "term" THEN <<"TERM">> ELSE <<"TERM", "KILL">>
            /\ k.waited = CASE k.obeys = "term" -> 0
                            [] k.obeys = "kill" -> TermGrace
                            [] OTHER -> TermGrace + KillGrace
            /\ proc.st = IF k.obeys \in {"term", "kill"} THEN "exited" ELSE "running"

C21_Witness ==
    /\ hist.kill.calls = 2
    /\ hist.kill.before.st = "running"
    /\ hist.kill.obeys = "denied"
    /\ hist.kill.tried = <<"TERM", "KILL">>
    /\ hist.kill.sent = <<>>
    /\ hist.kill.returned
    /\ proc.st = "running"

\* C22: send() never lets an exception out.  On an object that is not
\* connected or has no socket it returns None without touching a socket and
\* changes nothing; on a live one a response is returned, a response that
\* does not come in time gives the placeholder and leaves the connection
\* alive, and an error of the transport gives None and leaves the object
\* not alive.
C22_SendNeverRaises ==
    hist.op.name = "send" =>
        LET op == hist.op
        IN  /\ ~op.raised
            /\ IF ~op.before.connected \/ ~op.before.sock
               THEN op.response = "none" /\ ~op.touched /\ monitor = op.before
               ELSE /\ op.touched
                    /\ op.response = CASE op.net = "responds" -> "text"
                                        [] op.net = "timeout" -> "(timeout)"
                                        [] OTHER -> "none"
                    /\ monitor = IF op.net \in {"responds", "timeout"}
                                 THEN op.before
                                 ELSE [sock |-> op.before.sock, connected |-> FALSE]

C22_Witness ==
    /\ hist.op.name = "send"
    /\ hist.op.prev = "send"
    /\ hist.op.before.connected
    /\ hist.op.response = "(timeout)"
    /\ monitor.connected

\* C23: close() can be called in any state and any number of times: after it
\* the object has no socket and is not alive, a second close changes
\* nothing, and a send that follows returns None without touching a socket.
C23_CloseIdempotent ==
    /\ hist.op.name = "close" => monitor = NoMonitor /\ ~hist.op.raised
    /\ (hist.op.name = "close" /\ hist.op.prev = "close") => monitor = hist.op.before
    /\ (hist.op.name = "send" /\ hist.op.prev = "close") =>
          /\ hist.op.response = "none"
          /\ ~hist.op.touched
          /\ monitor = NoMonitor

C23_Witness ==
    /\ hist.op.name = "close"
    /\ hist.op.prev = "close"
    /\ hist.op.n = MaxOps
    /\ monitor = NoMonitor

\* The tags of the lines tagged in the session (the recent-signal buffer
\* has room for all of them here).
SessionTags == {state.recent_signals[i][1] : i \in 1..Len(state.recent_signals)}

\* C24, as stated: the verdict of the final report is 'contact' exactly when
\* a decision line was tagged in the session, 'signal' exactly when none was
\* but some line was tagged, 'silence' exactly when no line was tagged.
C24_VerdictByTaggedLines ==
    hist.reports >= 1 =>
        print_final_report(state) =
            IF SessionTags \cap {"ADAPT", "HEAL", "META"} # {} THEN "contact"
            ELSE IF SessionTags # {} THEN "signal"
            ELSE "silence"

\* C24, amended: the verdict of the final report is 'contact' exactly when a
\* decision line was tagged in the session, 'signal' exactly when none was
\* but some line was tagged NEXUS or nexus, and 'silence' otherwise, lines
\* with any other tag notwithstanding.
C24_VerdictByNexusLines ==
    hist.reports >= 1 =>
        print_final_report(state) =
            IF SessionTags \cap {"ADAPT", "HEAL", "META"} # {} THEN "contact"
            ELSE IF SessionTags \cap {"NEXUS", "nexus"} # {} THEN "signal"
            ELSE "silence"

C24_Witness ==
    /\ hist.reports = 1
    /\ SessionTags = {"PANIC"}
    /\ state.panic_signals > 0
    /\ print_final_report(state) = "silence"

\* The output lines of a cycle log, in order: its records other than the
\* header, the stimulus records and the trailer.
RECURSIVE LoggedLines(_)
LoggedLines(log) ==
    IF log = <<>> THEN <<>>
    ELSE LET front == LoggedLines(SubSeq(log, 1, Len(log) - 1))
             last == log[Len(log)]
         IN  IF last[1] = "line" THEN Append(front, last[2]) ELSE front

\* C25: the output lines in a cycle's log are, in order and character for
\* character, trailing white space included, the lines handed to
\* classify_line in that cycle.
C25_LogRoundTrip ==
    (pc = "line_done" /\ state.cycle_log_fd = "open") =>
        LoggedLines(state.log) = hist.classified

\* C26: a cycle whose process was launched reaches its closed state: under
\* fair scheduling and advancing time its cleanup is completed, whatever the
\* process does.
C26_EveryCycleCloses ==
    \A c \in 1..MaxCycles :
        (pc = "connect" /\ state.current_cycle = c) ~> (hist.closed.cycle = c)

\* Under the same conditions run_probe does not stay in a cycle: the cycle
\* is closed or an exception has left run_probe.
CycleIsLeft == (pc \in {"launch", "connect", "active"}) ~> (pc \in {"loop_head", "exit"})

\* C27: the stimulus injection of an iteration fires exactly when the
\* monitor is alive and at least the interval has passed since the last
\* injection; when it fires it calls send burst times and adds burst to
\* stimuli_sent, whatever the sends met; when it does not, it calls send
\* not at all and leaves stimuli_sent and the time of the last injection.
C27_StimulusExactlyBurst ==
    hist.op.name = "stimulus" =>
        LET op == hist.op
        IN  IF op.before.connected /\ clock - op.last_poke >= poke_interval
            THEN /\ op.attempts = poke_burst
                 /\ state.stimuli_sent = op.sent_before + poke_burst
                 /\ loc.last_poke = clock
            ELSE /\ op.attempts = 0
                 /\ state.stimuli_sent = op.sent_before
                 /\ loc.last_poke = op.last_poke
                 /\ monitor = op.before

C27_Witness ==
    /\ hist.op.name = "stimulus"
    /\ hist.op.prev = "stimulus"
    /\ hist.op.attempts = PokeBurst
    /\ state.stimuli_sent = 2 * PokeBurst
    /\ ~monitor.connected

\* C28: send is not called on a monitor that is not alive: within a burst,
\* after a send that met a transport error, no further send is made.
C28_NoSendOnDeadMonitor ==
    hist.op.name = "stimulus" => hist.op.dead_calls = 0

\* C29, as stated: the Active loop of a cycle ends, and the cleanup follows,
\* only because the deadline was reached, the process had exited, a death
\* signature was observed or shutdown was requested.
C29_LoopEndsForFourReasons ==
    CycleCounted => hist.end \in {"deadline", "exit", "death", "shutdown"}

\* C29, amended: the Active loop of a cycle ends, and the cleanup follows,
\* only for one of five reasons, each of which was the case: the deadline
\* was reached, the process had exited, a death signature was observed,
\* shutdown was requested, or select on the output stream raised an error.
C29_LoopEndsForFiveReasons ==
    CycleCounted =>
        /\ hist.end \in {"deadline", "exit", "death", "shutdown", "select_error"}
        /\ hist.end = "deadline" => clock >= state.cycle_start + CycleTimeout
        /\ hist.end = "exit" => hist.end_proc.st = "exited"
        /\ hist.end = "death" => DeathObserved
        /\ hist.end = "shutdown" => state.shutdown_requested

C29_Witness ==
    /\ hist.end = "select_error"
    /\ hist.closed.cycle = state.current_cycle
    /\ hist.end_proc.st = "running"
    /\ clock < state.cycle_start + CycleTimeout
    /\ ~state.shutdown_requested
    /\ ~DeathObserved
    /\ state.cycle_lines > 0

\* The lifetime counters that classify_line and the stimulus injection
\* write.
LoopCounters ==
    {"lines_total", "decisions_detected", "stimuli_sent", "nexus_signals",
     "boot_signals", "panic_signals", "mem_signals", "sched_signals"}

DecisionLine(line) ==
    /\ Matching(line) # {}
    /\ SIGNAL_PATTERNS[Earliest(Matching(line))].is_decision

LineBase ==
    IF state.cycle_log_fd = "open" THEN open_log(new_cycle(ProbeState, 0)) ELSE ProbeState

\* C32: classifying a line that no rule matches adds 1 to lines_total and to
\* cycle_lines and leaves every other field of the state as it was: the
\* decision and signal counters, the last decision text, the recent-signal
\* buffer.
C32_UnmatchedLineCountsOnly ==
    (pc = "line_done" /\ Matching(hist.classified[1]) = {}) =>
        [state EXCEPT !.log = LineBase.log]
            = [LineBase EXCEPT !.lines_total = @ + 1, !.cycle_lines = @ + 1]

C32_Witness ==
    /\ pc = "line_done"
    /\ hist.classified[1] = <<"ADJ", "OTHER">>
    /\ state.lines_total = 1
    /\ state.cycle_lines = 1
    /\ state.recent_signals = <<>>
    /\ state.decisions_detected = 0

\* The lifetime counters of tagged lines, summed.
CategorySum ==
    state.decisions_detected + state.nexus_signals + state.boot_signals
        + state.panic_signals + state.mem_signals + state.sched_signals

\* C33, as stated: a tagged line adds 1 to exactly one counter, so that the
\* counters add up to the number of tagged lines.
C33_CountersSumToTagged ==
    pc = "line_done" => CategorySum = Len(state.recent_signals)

\* C33, amended: a tagged line adds 1 to at most one lifetime counter:
\* decisions_detected, which ADAPT, HEAL and META share, nexus_signals for
\* NEXUS and nexus, boot_signals for BOOT, panic_signals for PANIC and CRASH,
\* mem_signals for MEM, sched_signals for SCHED, and none for CORE and DEMO;
\* the counters add up to the number of lines tagged otherwise than CORE or
\* DEMO.
C33_CountersSumToCounted ==
    (pc = "line_done" /\ Matching(hist.classified[1]) # {}) =>
        LET tag == SIGNAL_PATTERNS[Earliest(Matching(hist.classified[1]))].tag
            own == CountersOf(tag) \ {"cycle_decisions"}
        IN  /\ Len(state.recent_signals) = 1
            /\ CategorySum = IF tag \in {"CORE", "DEMO"} THEN 0 ELSE 1
            /\ Cardinality(own) = CategorySum
            /\ \A c \in own : state[c] = 1

C33_Witness ==
    /\ pc = "line_done"
    /\ hist.classified[1] = <<"CORE", "HEAP">>
    /\ state.recent_signals[1][1] = "CORE"
    /\ CategorySum = 0

\* The log is a header, then records that are neither header nor trailer,
\* then one trailer.
WellFormedLog(log) ==
    /\ Len(log) >= 2
    /\ log[1][1] = "header"
    /\ log[Len(log)][1] = "trailer"
    /\ \A i \in 2..(Len(log) - 1) : log[i][1] \in {"line", "poke"}

\* C34: once a cycle is over, its launch having failed or not, its log is a
\* header, then lines, then exactly one trailer as the last record, the
\* handle is closed, and the crash flag of the trailer tells whether the
\* cycle was counted in crashes_total.
C34_LogHeaderLinesTrailer ==
    (pc \in {"loop_head", "exit"} /\ state.cycles_total >= 1) =>
        /\ WellFormedLog(state.log)
        /\ state.cycle_log_fd = "none"
        /\ state.log[Len(state.log)][3] = (CrashDelta = 1)

\* One sequence is the beginning of the other.
IsPrefix(a, b) == Len(a) <= Len(b) /\ a = SubSeq(b, 1, Len(a))

\* C35: the lines handed to classify_line in a cycle are whole lines of the
\* output of the cycle's process, each once and in the order written: they
\* are the first of the lines of that output, also when a line came in two
\* reads and also after the drain of the leftover output.
C35_WholeLinesInOrder ==
    IsPrefix(hist.classified, splitlines(hist.produced))

\* C36: with --no-poke no stimulus is sent in the whole session, whatever
\* the cycle timeout and the number of cycles, with the monitor connected
\* too: stimuli_sent stays 0 and no log gets a poke record.
C36_NoPokeSendsNothing ==
    /\ state.stimuli_sent = 0
    /\ PokeRecords = {}

C36_Witness ==
    /\ pc = "active"
    /\ state.current_cycle = 1
    /\ monitor.connected
    /\ loc.last_poke >= NoPokeInterval
    /\ clock < loc.deadline
    /\ state.cycle_lines > 0
    /\ state.stimuli_sent = 0

\* C37: crashes_total never exceeds cycles_total; within a cycle, from its
\* start to the start of the next, it grows by at most 1; a cycle whose
\* launch failed adds nothing.
C37_CrashesBoundedByCycles ==
    /\ state.crashes_total <= state.cycles_total
    /\ CrashDelta \in {0, 1}
    /\ hist.launch \in {"failed", "raised"} => CrashDelta = 0

C37_Witness ==
    /\ state.cycles_total = 2
    /\ state.crashes_total = 2
    /\ hist.crashes_before = 1
    /\ pc = "loop_head"

\* The six lifetime counters of tagged lines.
TaggedCounters ==
    {"decisions_detected", "nexus_signals", "boot_signals", "panic_signals",
     "mem_signals", "sched_signals"}

\* C38: the six counters of tagged lines add up to at most lines_total, the
\* recent-signal buffer has at most lines_total entries, and one call of
\* classify_line raises at most one of the six counters, by 1, and lowers
\* none.
C38_TaggedAtMostLines ==
    /\ [](/\ CategorySum <= state.lines_total
          /\ Len(state.recent_signals) <= state.lines_total)
    /\ [][ /\ \A c \in TaggedCounters : state'[c] - state[c] \in {0, 1}
           /\ Cardinality({c \in TaggedCounters : state'[c] # state[c]}) <= 1
           /\ state'.lines_total = state.lines_total + 1 ]_vars

C38_Witness ==
    /\ state.lines_total = MAX_RECENT + RingExtra
    /\ Len(state.recent_signals) = MAX_RECENT
    /\ state.decisions_detected > 0
    /\ state.nexus_signals > 0
    /\ CategorySum < state.lines_total

\* C39: the interval timer of a cycle starts when its Active loop begins and
\* is not that of the cycle before; a burst is sent only when at least the
\* interval has passed on it, and restarts it: the first burst of a cycle
\* comes no sooner than one interval after the loop began, and two bursts
\* of a cycle are at least one interval apart.
C39_BurstsSpacedByInterval ==
    /\ []((pc = "active" /\ state.stimuli_sent = hist.stimuli_before) =>
              loc.last_poke = state.cycle_start)
    /\ []((pc = "active" /\ state.stimuli_sent > hist.stimuli_before) =>
              loc.last_poke >= state.cycle_start + poke_interval)
    /\ [][ state'.stimuli_sent # state.stimuli_sent =>
              /\ clock - loc.last_poke >= poke_interval
              /\ loc'.last_poke = clock ]_vars

C39_Witness ==
    /\ pc = "active"
    /\ state.current_cycle = 2
    /\ state.cycle_start > 0
    /\ state.stimuli_sent = hist.stimuli_before + 2 * PokeBurst
    /\ loc.last_poke = state.cycle_start + 2 * PokeInterval

\* The shutdown flag was set after the head of the outer loop had let a
\* cycle start, and that cycle's process has been launched.
LateCycle ==
    state.shutdown_requested /\ hist.launches = hist.sigint_launches + 1

\* C40: the shutdown flag, once set, stays set; after it is set at most one
\* more process is launched; in the cycle of that launch the Active loop
\* makes no iteration (no line is classified, no stimulus sent), the cycle
\* is cleaned up for that reason, and no further cycle starts.
C40_ShutdownFlagSticks ==
    /\ [][state.shutdown_requested => state'.shutdown_requested]_vars
    /\ [][state.shutdown_requested => state'.cycles_total = state.cycles_total]_vars
    /\ [](state.shutdown_requested => hist.launches <= hist.sigint_launches + 1)
    /\ [](LateCycle =>
            /\ hist.classified = <<>>
            /\ state.cycle_lines = 0
            /\ state.stimuli_sent = hist.stimuli_before
            /\ PokeRecords = {})
    /\ []((LateCycle /\ pc \in {"loop_head", "exit"}) =>
            /\ hist.end = "shutdown"
            /\ proc = NoProc
            /\ ~monitor.sock)

C40_Witness ==
    /\ LateCycle
    /\ pc = "exit"
    /\ state.current_cycle = 2
    /\ state.lines_total > 0
    /\ hist.end = "shutdown"
    /\ hist.closed.cycle = 2
    /\ hist.reports = 1

====
